---------------------------- MODULE Spec2Model ----------------------------
(***************************************************************************)
(* KITT-effect audio visualiser (src/kitt_effect.py, src/main.py).         *)
(*                                                                         *)
(* The model follows main.py: load_and_process_audio, then                 *)
(* calculate_energy_level_of_chunks, get_number_of_rectangles,             *)
(* process_video and produce_final_output, each translated from its code.  *)
(*                                                                         *)
(* Numbers.  Samples are integers.  An energy value is a binary64 number   *)
(* that the code obtains as sqrt(x) * 10.  The model carries the real      *)
(* number that this computation approximates, exactly, as the rational     *)
(* number that is its square ([num |-> p, den |-> q] stands for the value  *)
(* sqrt(p / q)), together with the operands of the computation, from which *)
(* the binary64 number itself is computed (DoubleOf) where the rounding    *)
(* errors of the code's arithmetic decide the outcome: in round(e / t)     *)
(* when the real ratio lies exactly half-way between two integers.  nan =  *)
(* TRUE is the IEEE NaN that 0.0 / 0.0 and the mean of no value yield.     *)
(* Thresholds are carried in tenths (0.8 is 8).  round() is Python's       *)
(* round-half-to-even.  pydub addresses a recording by milliseconds, which *)
(* are binary64 numbers where the window length 1000 / FPS is not whole;   *)
(* the frames that a window runs from and to are computed from the real    *)
(* numbers where these are not whole, and in binary64 where they are.      *)
(***************************************************************************)
EXTENDS Integers, Sequences, FiniteSets

VARIABLES
    pc,                    \* position in main.py / in the direct call
    FPS,                   \* main.py FPS
    nep50,                 \* NumPy build: TRUE when a Python int operand keeps the uint8 type
    audio_found,           \* whether AUDIO_FILE_NAME can be opened
    background_found,      \* whether cv2.imread can read BACKGROUND_IMAGE
    channels,              \* record.channels of the decoded audio file
    samples,               \* the decoded frames: a sample each (mono) or a pair (stereo)
    steps,                 \* preprocessing calls made by load_and_process_audio, in order
    RECORD,                \* main.py RECORD
    energy_of_chunks,      \* calculate_energy_level_of_chunks: the mean energies (line 105)
    ENERGY_OF_CHUNKS,      \* main.py ENERGY_OF_CHUNKS
    NUMBER_OF_RECTANGLES,  \* main.py NUMBER_OF_RECTANGLES (uint8 array)
    walks,                 \* per chunk: the threshold walk of get_number_of_rectangles
    error,                 \* the exception that ended the run, or "none"
    img,                   \* process_video img (the background), as the rectangles painted on it
    frames,                \* frames written to the VideoWriter, in order
    video_file,            \* VIDEO_FILE_NAME: "absent", "open" or "written"
    final_file             \* FINAL_VIDEO_FILE: "absent" or "written"

vars == << pc, FPS, nep50, audio_found, background_found, channels, samples, steps,
           RECORD, energy_of_chunks, ENERGY_OF_CHUNKS, NUMBER_OF_RECTANGLES, walks,
           error, img, frames, video_file, final_file >>

---------------------------------------------------------------------------
(* Bounds of the model *)

\* longest recording, in samples
MaxSamples == 4
\* frames per second of the decoded stream (frame_rate)
SampleRate == 24
\* largest sample magnitude of the sample width (max_possible_amplitude)
FullScale == 8
\* energies handed to a direct call are multiples of 1 / EScale ...
EScale == 5
\* ... from 0 up to MaxEnergy
MaxEnergy == 16

\* sample values a decoded mono recording is made of
SampleValues == {-1, 0, 2}

\* frames a decoded stereo recording is made of: the left sample below the right
StereoFrames == { f \in SampleValues \X SampleValues : f[1] < f[2] }

---------------------------------------------------------------------------
(* Arithmetic *)

Min(a, b) == IF a <= b THEN a ELSE b

Abs(x) == IF x < 0 THEN -x ELSE x

RECURSIVE IsqrtIn(_, _, _)
\* floor(sqrt(x)), searched in lo..hi
IsqrtIn(x, lo, hi) ==
    IF lo >= hi THEN lo
    ELSE LET mid == (lo + hi + 1) \div 2
         IN  IF mid * mid <= x THEN IsqrtIn(x, mid, hi) ELSE IsqrtIn(x, lo, mid - 1)

Isqrt(x) == IsqrtIn(x, 0, Min(x, 46340))

---------------------------------------------------------------------------
(* binary64 arithmetic: division, square root, multiplication by 10 and     *)
(* round(), each rounded to nearest, ties to even, as IEEE 754 has it       *)

\* a natural number below 2^60 is carried as two halves of 30 bits: hi * 2^30 + lo
Half == 2^30

Wide(n) == [hi |-> n \div Half, lo |-> n % Half]

WideZero == Wide(0)

WideOne == Wide(1)

\* x < y
WLess(x, y) == x.hi < y.hi \/ (x.hi = y.hi /\ x.lo < y.lo)

WAdd(x, y) == [hi |-> x.hi + y.hi + (x.lo + y.lo) \div Half, lo |-> (x.lo + y.lo) % Half]

\* x - y for x >= y
WSub(x, y) ==
    [hi |-> x.hi - y.hi - (IF x.lo < y.lo THEN 1 ELSE 0), lo |-> (x.lo - y.lo) % Half]

\* floor(x / 2^k), k < 60
WShr(x, k) ==
    IF k >= 30
    THEN [hi |-> 0, lo |-> x.hi \div (2^(k - 30))]
    ELSE [hi |-> x.hi \div (2^k), lo |-> x.lo \div (2^k) + (x.hi % (2^k)) * (2^(30 - k))]

\* x * 2^k modulo 2^60, k < 60
WShl(x, k) ==
    IF k >= 30
    THEN [hi |-> (x.lo % (2^(60 - k))) * (2^(k - 30)), lo |-> 0]
    ELSE [hi |-> (x.hi % (2^(30 - k))) * (2^k) + x.lo \div (2^(30 - k)),
          lo |-> (x.lo % (2^(30 - k))) * (2^k)]

RECURSIVE BitsOf(_)
\* number of bits of n: 0 for 0
BitsOf(n) == IF n = 0 THEN 0 ELSE 1 + BitsOf(n \div 2)

WBits(x) == IF x.hi # 0 THEN 30 + BitsOf(x.hi) ELSE BitsOf(x.lo)

\* a binary64 number m * 2^e with 2^52 <= m < 2^53, or zero (m = 0)
Double(m, e) == [m |-> m, e |-> e]

DZero == Double(WideZero, 0)

\* m + 1 after a rounding up: 2^53 is renormalised
RoundedUp(m1, e) == IF WBits(m1) = 54 THEN Double(WShr(m1, 1), e + 1) ELSE Double(m1, e)

\* round to nearest, ties to even: guard is the bit below m, sticky tells of
\* non-zero bits below the guard
RoundGuard(m, guard, sticky, e) ==
    IF guard = 1 /\ (sticky \/ m.lo % 2 = 1) THEN RoundedUp(WAdd(m, WideOne), e)
    ELSE Double(m, e)

\* the binary64 number nearest to (q + fraction) * 2^e, where q > 0 has len bits and
\* sticky tells whether a fraction in (0, 1) is there (then len >= 54)
RoundLen(q, e, sticky, len) ==
    IF len <= 54
    THEN RoundGuard(WShr(WShl(q, 54 - len), 1), WShl(q, 54 - len).lo % 2,
                    sticky, e - (54 - len) + 1)
    ELSE RoundGuard(WShr(q, len - 53), WShr(q, len - 54).lo % 2,
                    sticky \/ WShl(WShr(q, len - 54), len - 54) # q,
                    e + (len - 54) + 1)

RoundWide(q, e, sticky) == RoundLen(q, e, sticky, WBits(q))

\* float(k) for an integer 0 <= k < 2^31
DoubleOfInt(k) == IF k = 0 THEN DZero ELSE RoundWide(Wide(k), 0, FALSE)

\* one more quotient bit of the division by y: r is the running remainder (r < 2 * y),
\* q the quotient bits so far, n the number of bits still to produce
DivStep(s, y) ==
    IF WLess(s.r, y)
    THEN [r |-> WShl(s.r, 1), q |-> WShl(s.q, 1), n |-> s.n - 1]
    ELSE [r |-> WShl(WSub(s.r, y), 1), q |-> WAdd(WShl(s.q, 1), WideOne), n |-> s.n - 1]

RECURSIVE DivLoop(_, _)
\* the quotient bits one by one; once the remainder is 0 the bits left are all 0
DivLoop(s, y) ==
    IF s.n = 0 THEN s
    ELSE IF s.r = WideZero THEN [r |-> WideZero, q |-> WShl(s.q, s.n), n |-> 0]
    ELSE DivLoop(DivStep(s, y), y)

\* the binary64 number nearest to the quotient or root held in s, scaled by 2^e
DivRound(s, e) == RoundWide(s.q, e, s.r # WideZero)

\* x / y in binary64, for x >= 0 and y > 0
FDiv(x, y) ==
    IF x.m = WideZero THEN DZero
    ELSE DivRound(DivLoop([r |-> x.m, q |-> WideZero, n |-> 57], y.m), x.e - y.e - 56)

\* the root q and the remainder r grown by the next base-4 digit of the radicand
SqrtGrow(s, r4, trial) ==
    IF WLess(r4, trial)
    THEN [r |-> r4, q |-> WShl(s.q, 1), n |-> s.n - 1]
    ELSE [r |-> WSub(r4, trial), q |-> WAdd(WShl(s.q, 1), WideOne), n |-> s.n - 1]

\* the radicand is mm * 2^54 (mm < 2^54): 27 base-4 digits of mm, then 27 zeros
SqrtDigit(mm, n) == IF n > 27 THEN WShr(mm, 2 * (n - 28)).lo % 4 ELSE 0

SqrtStep(s, mm) ==
    SqrtGrow(s, WAdd(WShl(s.r, 2), Wide(SqrtDigit(mm, s.n))), WAdd(WShl(s.q, 2), WideOne))

RECURSIVE SqrtLoop(_, _)
\* the bits of the root one by one; once the remainder is 0 and the digits of the
\* radicand that are left are the 27 zeros, the bits left are all 0
SqrtLoop(s, mm) ==
    IF s.n = 0 THEN s
    ELSE IF s.r = WideZero /\ s.n <= 27 THEN [r |-> WideZero, q |-> WShl(s.q, s.n), n |-> 0]
    ELSE SqrtLoop(SqrtStep(s, mm), mm)

\* floor(sqrt(mm * 2^54)) and the remainder
WSqrt(mm) == SqrtLoop([r |-> WideZero, q |-> WideZero, n |-> 54], mm)

\* sqrt(x) in binary64
FSqrt(x) ==
    IF x.m = WideZero THEN DZero
    ELSE IF x.e % 2 = 0
    THEN DivRound(WSqrt(x.m), (x.e - 54) \div 2)
    ELSE DivRound(WSqrt(WShl(x.m, 1)), (x.e - 55) \div 2)

\* x * 10 in binary64
FTimes10(x) ==
    IF x.m = WideZero THEN DZero
    ELSE RoundWide(WAdd(WShl(x.m, 3), WShl(x.m, 1)), x.e, FALSE)

\* ties to the even integer
RoundHalfEven(whole, half, rest) ==
    IF half = 1 /\ (rest \/ whole % 2 = 1) THEN whole + 1 ELSE whole

\* round(x) of Python for a binary64 0 <= x < 2^30
FRound(x) ==
    IF x.m = WideZero \/ x.e < -54 THEN 0
    ELSE IF x.e >= 0 THEN WShl(x.m, x.e).lo
    ELSE RoundHalfEven(WShr(x.m, -x.e).lo,
                       WShr(x.m, -x.e - 1).lo % 2,
                       WShl(WShr(x.m, -x.e - 1), -x.e - 1) # x.m)

\* a / b in binary64 for integers a >= 0, b > 0
FDivInt(a, b) == FDiv(DoubleOfInt(a), DoubleOfInt(b))

\* 2^15: a half of 30 bits is two quarters
Quarter == 2^15

\* x * y for the quarters x1, x0 of x and y1, y0 of y
Mul30With(x1, x0, y1, y0) ==
    [hi |-> x1 * y1 + (x1 * y0 + x0 * y1) \div Quarter
            + (((x1 * y0 + x0 * y1) % Quarter) * Quarter + x0 * y0) \div Half,
     lo |-> (((x1 * y0 + x0 * y1) % Quarter) * Quarter + x0 * y0) % Half]

\* x * y for x, y < 2^30
Mul30(x, y) == Mul30With(x \div Quarter, x % Quarter, y \div Quarter, y % Quarter)

\* the product of two 53-bit numbers x and y from its partial products
\* hh = x.hi * y.hi, mid = x.hi * y.lo + x.lo * y.hi and ll = x.lo * y.lo: the bits
\* of the product from 2^46 upward, and whether a bit below them is set
MulTop(hh, mid, ll) ==
    [q |-> WAdd(WShl(WAdd(hh, Wide(mid.hi + (ll.hi + mid.lo) \div Half)), 14),
                Wide(((ll.hi + mid.lo) % Half) \div (2^16))),
     sticky |-> ((ll.hi + mid.lo) % Half) % (2^16) # 0 \/ ll.lo # 0]

MulRound(t, e) == RoundWide(t.q, e, t.sticky)

\* x * y in binary64, for x, y >= 0
FMul(x, y) ==
    IF x.m = WideZero \/ y.m = WideZero THEN DZero
    ELSE MulRound(MulTop(Mul30(x.m.hi, y.m.hi),
                         WAdd(Mul30(x.m.hi, y.m.lo), Mul30(x.m.lo, y.m.hi)),
                         Mul30(x.m.lo, y.m.lo)),
                  x.e + y.e + 46)

\* int(x) for a binary64 0 <= x < 2^30
FTrunc(x) ==
    IF x.m = WideZero \/ x.e <= -53 THEN 0
    ELSE IF x.e >= 0 THEN WShl(x.m, x.e).lo
    ELSE WShr(x.m, -x.e).lo

\* whether the binary64 x >= 0 is a whole number
FWhole(x) ==
    x.m = WideZero \/ x.e >= 0 \/ (x.e > -53 /\ WShl(WShr(x.m, -x.e), -x.e) = x.m)

\* math.ceil(x) for a binary64 0 <= x < 2^30
FCeil(x) == IF FWhole(x) THEN FTrunc(x) ELSE FTrunc(x) + 1

\* x < k for a binary64 x >= 0 and an integer k
FLessInt(x, k) == FTrunc(x) < k

---------------------------------------------------------------------------
(* Energy values *)

\* the energy value p / q, for integers p >= 0 and q > 0
RatioEnergy(p, q) ==
    [nan |-> FALSE, num |-> p * p, den |-> q * q, how |-> "ratio", of |-> << p, q, 1, 1 >>]

\* the energy value np.sqrt(raw / mx) * 10 of the mean energies raw and mx # 0
RescaledEnergy(raw, mx) ==
    [nan |-> FALSE, num |-> 100 * raw.num * mx.den, den |-> raw.den * mx.num,
     how |-> "rescaled", of |-> << raw.num, raw.den, mx.num, mx.den >>]

\* the energy value k / EScale
GridEnergy(k) == RatioEnergy(k, EScale)

NaN == [nan |-> TRUE, num |-> 0, den |-> 1, how |-> "nan", of |-> << 0, 1, 0, 1 >>]

\* the mean energy num / den of a window (np.mean(tmp ** 2), den values)
MeanOf(num, den) == [nan |-> FALSE, num |-> num, den |-> den]

\* np.mean of no values
MeanOfNone == [nan |-> TRUE, num |-> 0, den |-> 1]

\* the binary64 number that the code holds for the energy value e
DoubleOf(e) ==
    IF e.how = "ratio" THEN FDivInt(e.of[1], e.of[2])
    ELSE FTimes10(FSqrt(FDiv(FDivInt(e.of[1], e.of[2]), FDivInt(e.of[3], e.of[4]))))

---------------------------------------------------------------------------
(* get_number_of_rectangles *)

\* energy_thresholds, in tenths; no table for another FPS
EnergyThresholds(fps) ==
    IF fps = 10 THEN << 1, 8, 16, 24, 32, 40, 50, 60, 70, 80, 100 >>
    ELSE IF fps = 15 THEN << 6, 10, 15, 20, 25, 30, 35, 40, 50, 70, 100 >>
    ELSE << >>

\* the binary64 number of the literal of a threshold of t tenths
ThresholdDouble(t) == FDivInt(t, 10)

\* round(each_chunk / threshold), given m = floor(2 * e / threshold) of the real
\* numbers.  For an even m = 2 * n the real ratio lies in [n, n + 1/2), for an odd
\* m = 2 * n + 1 in [n + 1/2, n + 1).  Away from n + 1/2 the binary64 quotient
\* rounds as the real ratio does: the two differ by a few units in the 53rd binary
\* place, and a ratio of these operands that is not n + 1/2 is further from it.
\* At n + 1/2 the binary64 quotient decides: it may lie below, on or above the tie.
RoundRatioWith(e, t, m) ==
    IF m % 2 = 0 THEN m \div 2
    ELSE IF 400 * e.num = m * m * e.den * t * t
    THEN FRound(FDiv(DoubleOf(e), ThresholdDouble(t)))
    ELSE m \div 2 + 1

\* round(each_chunk / threshold) for a threshold of t tenths:
\* (2 * e / (t/10))^2 = 400 * p / (q * t^2)
RoundRatio(e, t) == RoundRatioWith(e, t, Isqrt((400 * e.num) \div (e.den * t * t)))

\* LevelOf with the + 1 of counter*2 + 1 left out
LevelOfEven(counter) == IF counter = 0 THEN 0 ELSE (counter * 2) % 256

\* the level saved for a counter, stored in a uint8 cell
LevelOf(counter) == IF counter = 0 THEN 0 ELSE (counter * 2 + 1) % 256

RECURSIVE WalkFrom(_, _, _, _, _)
\* WalkBody ending the loop on a rounded ratio of 0 only
WalkBodyStopOnZero(e, th, counter, iterations, ratio) ==
    IF ratio = 0
    THEN WalkFrom(e, th, counter, 1, iterations + 1)
    ELSE WalkFrom(e, th, counter + 1, 0, iterations + 1)

\* one pass of the loop body with ratio = round(each_chunk / energy_thresholds[counter])
WalkBody(e, th, counter, iterations, ratio) ==
    IF ratio = 0
    THEN WalkFrom(e, th, counter, 1, iterations + 1)
    ELSE WalkFrom(e, th, counter + 1, ratio, iterations + 1)

\* the while loop: counter is the 0-based index read next, iterations counts the
\* loop bodies run so far.  round(nan) raises ValueError; an index past the table
\* raises IndexError.
WalkFrom(e, th, counter, division, iterations) ==
    IF division = 1
    THEN [counter |-> counter, iterations |-> iterations, raised |-> "none"]
    ELSE IF counter >= Len(th)
    THEN [counter |-> counter, iterations |-> iterations + 1, raised |-> "IndexError"]
    ELSE IF e.nan
    THEN [counter |-> counter, iterations |-> iterations + 1, raised |-> "ValueError(NaN)"]
    ELSE WalkBody(e, th, counter, iterations, RoundRatio(e, th[counter + 1]))

\* counter, division = 0, 0 and the loop
Walk(e, th) == WalkFrom(e, th, 0, 0, 0)

RECURSIVE QuantizeFrom(_, _, _, _, _)
\* chunk i, whose walk is w: an exception ends the call, else the level is saved
QuantizeChunk(energy, th, i, levels, ws, w) ==
    IF w.raised # "none"
    THEN [raised |-> w.raised, number_of_rectangles |-> << >>, walks |-> Append(ws, w)]
    ELSE QuantizeFrom(energy, th, i + 1, Append(levels, LevelOf(w.counter)), Append(ws, w))

\* QuantizeFrom with counter set to 0 once, before the for loop, not per chunk
QuantizeFromCarry(energy, th, i, levels, ws) ==
    IF i > Len(energy)
    THEN [raised |-> "none", number_of_rectangles |-> levels, walks |-> ws]
    ELSE QuantizeChunk(energy, th, i, levels, ws,
                       WalkFrom(energy[i], th,
                                IF ws = << >> THEN 0 ELSE ws[Len(ws)].counter, 0, 0))

\* the for loop over the chunks, from chunk i on
QuantizeFrom(energy, th, i, levels, ws) ==
    IF i > Len(energy)
    THEN [raised |-> "none", number_of_rectangles |-> levels, walks |-> ws]
    ELSE QuantizeChunk(energy, th, i, levels, ws, Walk(energy[i], th))

\* get_number_of_rectangles without the else branch that raises: any other FPS
\* takes the table of FPS 10
get_number_of_rectangles_any_fps(energy, fps) ==
    QuantizeFrom(energy, EnergyThresholds(IF fps = 15 THEN 15 ELSE 10), 1, << >>, << >>)

get_number_of_rectangles(energy, fps) ==
    IF fps \notin {10, 15}
    THEN [raised |-> "ValueError(FPS)", number_of_rectangles |-> << >>, walks |-> << >>]
    ELSE QuantizeFrom(energy, EnergyThresholds(fps), 1, << >>, << >>)

---------------------------------------------------------------------------
(* load_and_process_audio *)

\* record.set_channels(1) of a stereo stream (audioop.tomono with the factors 0.5):
\* floor(left * 0.5 + right * 0.5), frame by frame
SetChannelsMono(s) == [i \in DOMAIN s |-> (s[i][1] + s[i][2]) \div 2]

RECURSIVE SumTo(_, _)
\* s[1] + ... + s[n]
SumTo(s, n) == IF n = 0 THEN 0 ELSE SumTo(s, n - 1) + s[n]

RECURSIVE PeakTo(_, _)
\* the largest magnitude among s[1..n] (AudioSegment.max)
PeakTo(s, n) ==
    IF n = 0 THEN 0
    ELSE IF Abs(s[n]) > PeakTo(s, n - 1) THEN Abs(s[n]) ELSE PeakTo(s, n - 1)

\* db_to_float(-0.1) = 10^(-0.1 / 20) = 0.988 553 094 656 938 840 ..., the headroom
\* of normalize() as a factor: its first six digits of base 1000
HeadroomDigits == << 988, 553, 94, 656, 938, 840 >>

RECURSIVE ScaledDigits(_, _)
\* FullScale times the first k digits of the headroom factor, plus a carry at the
\* k-th place: the whole part, then k digits of base 1000
ScaledDigits(k, carry) ==
    IF k = 0 THEN << carry >>
    ELSE Append(ScaledDigits(k - 1, (FullScale * HeadroomDigits[k] + carry) \div 1000),
                (FullScale * HeadroomDigits[k] + carry) % 1000)

\* target_peak = max_possible_amplitude * db_to_float(-headroom): the peak that
\* normalize() aims at, as its whole part and six digits of base 1000
TargetPeak == ScaledDigits(Len(HeadroomDigits), 0)

RECURSIVE FractionOf(_, _, _)
\* floor(x * f) for the fraction f whose digits of base 1000 are t[k], t[k + 1], ...
FractionOf(x, t, k) ==
    IF k > Len(t) THEN 0
    ELSE (x * t[k] + FractionOf(x, t, k + 1)) \div 1000

\* apply_gain by the boost that brings peak to the target t: audioop.mul by the
\* factor target_peak / peak, floor(x * target_peak / peak).  (The factor of the
\* code is a binary64 number that went through log and pow; it differs from the
\* real ratio in the 15th significant digit, as the digits left out of t do.)
Gain(x, peak, t) == (x * t[1] + FractionOf(x, t, 2)) \div peak

\* a sample of the stream's width, wrapped as audioop.bias wraps it
WrapSample(x) == ((x + FullScale) % (2 * FullScale)) - FullScale

NormalizeWith(s, peak, t) == [i \in DOMAIN s |-> Gain(s[i], peak, t)]

\* record.normalize(): the gain that brings the peak to the target; a silent
\* stream is returned as it is
Normalize(s) ==
    IF PeakTo(s, Len(s)) = 0 THEN s
    ELSE NormalizeWith(s, PeakTo(s, Len(s)), TargetPeak)

\* audioop.bias(data, width, -avg)
Bias(s, avg) == [i \in DOMAIN s |-> WrapSample(s[i] - avg)]

\* record.remove_dc_offset(): the (floored) mean, audioop.avg, is subtracted from
\* every sample
RemoveDcOffset(s) == IF s = << >> THEN s ELSE Bias(s, SumTo(s, Len(s)) \div Len(s))

\* lines 49-53: a stream that is not mono is mixed down first, then
\* record.normalize().remove_dc_offset()
load_and_process_audio(s, ch) ==
    RemoveDcOffset(Normalize(IF ch # 1 THEN SetChannelsMono(s) ELSE s))

\* the pydub calls that load_and_process_audio makes on a stream of ch channels
CallsOf(ch) ==
    (IF ch # 1 THEN << "set_channels" >> ELSE << >>) \o << "normalize", "remove_dc_offset" >>

---------------------------------------------------------------------------
(* calculate_energy_level_of_chunks *)

\* chunk_length = 1000 / FPS (line 99), the window length in milliseconds
ChunkLength(fps) == FDivInt(1000, fps)

\* frame_rate / 1000.0 of AudioSegment.frame_count(ms)
FramesPerMs == FDivInt(SampleRate, 1000)

\* len(record) for n frames: round(1000 * (n / frame_rate)), the duration in whole
\* milliseconds.  Unless the real duration lies half-way between two of them, the
\* binary64 product rounds as the real number does.
LenMs(n) ==
    IF 2 * ((1000 * n) % SampleRate) = SampleRate
    THEN FRound(FMul(DoubleOfInt(1000), FDivInt(n, SampleRate)))
    ELSE (2000 * n + SampleRate) \div (2 * SampleRate)

\* make_chunks: number_of_chunks = ceil(len(record) / float(chunk_length)), for a
\* record of ms milliseconds.  A real quotient that is not whole has the ceiling of
\* its binary64 counterpart; for a whole one the binary64 quotient decides.
ChunksOfMs(ms, fps) ==
    IF (ms * fps) % 1000 = 0
    THEN FCeil(FDiv(DoubleOfInt(ms), ChunkLength(fps)))
    ELSE (ms * fps) \div 1000 + 1

\* len(chunks) for a record of n frames
NumChunks(n, fps) == ChunksOfMs(LenMs(n), fps)

\* _parse_position: int(frame_count(ms)) = int(ms * (frame_rate / 1000.0))
ParsePosition(ms) == FTrunc(FMul(ms, FramesPerMs))

\* the slice bound k * chunk_length
SliceBound(k, fps) == FMul(DoubleOfInt(k), ChunkLength(fps))

\* the frame at the slice bound min(k * chunk_length, len(record)) of a record of ms
\* milliseconds (__getitem__).  Where the real number of frames before the bound is
\* not whole, int() of its binary64 counterpart is its floor; where it is whole,
\* and where the bound is the end of the record exactly, the binary64 numbers
\* decide.
FrameAt(k, ms, fps) ==
    IF k * 1000 < ms * fps
    THEN IF (k * SampleRate) % fps = 0 THEN ParsePosition(SliceBound(k, fps))
         ELSE (k * SampleRate) \div fps
    ELSE IF k * 1000 = ms * fps /\ FLessInt(SliceBound(k, fps), ms)
    THEN ParsePosition(SliceBound(k, fps))
    ELSE IF (ms * SampleRate) % 1000 = 0 THEN ParsePosition(DoubleOfInt(ms))
    ELSE (ms * SampleRate) \div 1000

\* first frame (0-based) of window i (0-based) of a record of n frames
ChunkStart(i, n, fps) == FrameAt(i, LenMs(n), fps)

\* the frame after the last of window i
ChunkEnd(i, n, fps) == FrameAt(i + 1, LenMs(n), fps)

\* missing_frames of silence
Silence(missing) == [j \in 1 .. missing |-> 0]

\* the frames of data, which a slice of frames a .. b - 1 found in the record: a
\* slice that reaches past the last frame is filled up with silence, unless no
\* frame of it is there (the bound past the end is less than a millisecond past
\* it, so TooManyMissingFrames is not raised)
FillUp(data, a, b) ==
    IF data = << >> THEN data ELSE data \o Silence((b - a) - Len(data))

\* record[a ms : b ms], for the frames a and b of the two bounds
SliceFrames(record, a, b) == FillUp(SubSeq(record, a + 1, Min(b, Len(record))), a, b)

\* make_chunks(record, 1000 / FPS): the slices
\* record[i * chunk_length : (i + 1) * chunk_length]
MakeChunks(record, fps) ==
    [i \in 1 .. NumChunks(Len(record), fps) |->
        SliceFrames(record, ChunkStart(i - 1, Len(record), fps),
                    ChunkEnd(i - 1, Len(record), fps))]

RECURSIVE SumSqTo(_, _)
\* sum of tmp ** 2 over s[1..n]
SumSqTo(s, n) == IF n = 0 THEN 0 ELSE SumSqTo(s, n - 1) + s[n] * s[n]

\* np.mean(tmp ** 2), as the fraction sum / count; the mean of no value is NaN
MeanSquare(chunk) ==
    IF chunk = << >> THEN MeanOfNone
    ELSE MeanOf(SumSqTo(chunk, Len(chunk)), Len(chunk))

RECURSIVE MaxTo(_, _)
\* energy_of_chunks.max() over raws[1..n], n >= 1: NaN when a mean is NaN
MaxTo(raws, n) ==
    IF n = 1 \/ raws[n].nan THEN raws[n]
    ELSE IF MaxTo(raws, n - 1).nan THEN MaxTo(raws, n - 1)
    ELSE IF raws[n].num * MaxTo(raws, n - 1).den > MaxTo(raws, n - 1).num * raws[n].den
         THEN raws[n] ELSE MaxTo(raws, n - 1)

\* line 109: np.sqrt(energy_of_chunks / max) * 10, element by element; the square
\* of the result is 100 * raw / max; 0 / 0 is NaN, and so is x / NaN
Rescale(raws, mx) ==
    [i \in DOMAIN raws |->
        IF mx.nan \/ mx.num = 0 THEN NaN
        ELSE RescaledEnergy(raws[i], mx)]

\* lines 101-105: the mean energies of the windows, before the rescaling
RawEnergies(chunks) == [i \in DOMAIN chunks |-> MeanSquare(chunks[i])]

\* lines 109-111, for at least one window
EnergyOf(raws) == Rescale(raws, MaxTo(raws, Len(raws)))

\* lines 101-111 on the mean energies raws: .max() of an empty array raises
\* ValueError
RescaledOrRaised(raws) ==
    IF raws = << >>
    THEN [raised |-> "ValueError(empty)", means |-> raws, energy_of_chunks |-> << >>]
    ELSE [raised |-> "none", means |-> raws, energy_of_chunks |-> EnergyOf(raws)]

calculate_energy_level_of_chunks(record, fps) ==
    RescaledOrRaised(RawEnergies(MakeChunks(record, fps)))

---------------------------------------------------------------------------
(* rect_coords, draw_column, draw_rectangles *)

\* space between the rectangles of a column
vspace == 5
\* colour of the centre rectangle
red == 150
\* space between the columns
hspace == 40
\* dimensions of a rectangle
rect_w == 20
rect_h == 6
\* shift of the columns below the centre of the image
additional_vspace == 150
\* size of the background image
img_w == 1920
img_h == 1080

\* int(n / 2): truncation towards zero
IntHalf(n) == IF n >= 0 THEN n \div 2 ELSE -((-n) \div 2)

\* round(n / 2), ties to the even integer
RoundHalf(n) ==
    IF n % 2 = 0 THEN n \div 2
    ELSE IF ((n - 1) \div 2) % 2 = 0 THEN (n - 1) \div 2 ELSE (n + 1) \div 2

\* count - k for a level read from the uint8 array: the result stays uint8 and
\* wraps when the Python int operand is weakly typed, and is a wider signed
\* integer otherwise
Minus(count, k) == IF nep50 THEN (count - k) % 256 ELSE count - k

rect_coords(center, width, height) ==
    << << IntHalf(2 * center[1] - width), IntHalf(2 * center[2] - height) >>,
       << IntHalf(2 * center[1] + width), IntHalf(2 * center[2] + height) >> >>

\* the three ifs of the loop body of draw_column: whether index i draws ...
Draws(count, i) == i = 0 \/ (i > 0 /\ 2 * i < count) \/ 2 * i > count

\* ... and the rectangle it draws: the centre one, one below, or one above, where
\* ceil(i % (count / 2)) is ceil(((2 * i) % count) / 2)
ColumnRect(center, count, width, height, i) ==
    IF i = 0
    THEN [pts |-> rect_coords(center, width, height), colour |-> red]
    ELSE IF 2 * i < count
    THEN [pts |-> rect_coords(<< center[1], center[2] + i * (height + vspace) >>,
                              width, height),
          colour |-> red + 10 * i]
    ELSE [pts |-> rect_coords(<< center[1],
                                 center[2] - (i - (count \div 2)) * (height + vspace) >>,
                              width, height),
          colour |-> red + 10 * ((((2 * i) % count) + 1) \div 2)]

\* range(0, count)
Range(count) == [j \in 1 .. count |-> j - 1]

\* the indices of range(0, count) that draw, in order
DrawingIndices(count) ==
    LET Test(i) == Draws(count, i)
    IN  SelectSeq(Range(count), Test)

\* the rectangles of is, painted on image in order
DrawAll(image, center, count, width, height, is) ==
    image \o [k \in 1 .. Len(is) |->
                 LET r == ColumnRect(center, count, width, height, is[k])
                 IN  [pt1 |-> r.pts[1], pt2 |-> r.pts[2], colour |-> r.colour]]

draw_column(image, center, count, width, height) ==
    DrawAll(image, center, count, width, height, DrawingIndices(count))

\* the count draw_rectangles passes for the column at position i of index
ColumnCount(count, i) ==
    IF i = 0 THEN count
    ELSE IF i \in {-1, 1} THEN Minus(count, 2)
    ELSE Minus(count, 4)

RECURSIVE DrawColumnsFrom(_, _, _, _, _, _)
\* for i in index, from position i on
DrawColumnsFrom(image, center, count, width, height, i) ==
    IF i > 2 THEN image
    ELSE DrawColumnsFrom(
             draw_column(image, << center[1] + i * hspace, center[2] >>,
                         ColumnCount(count, i), width, height),
             center, count, width, height, i + 1)

draw_rectangles(image, center, count, width, height) ==
    DrawColumnsFrom(image, center, count, width, height, -2)

\* process_video: center_position
center_position == << RoundHalf(img_w), RoundHalf(img_h) + additional_vspace >>

---------------------------------------------------------------------------
(* A direct call of get_number_of_rectangles on given energies *)

GridEnergies == { GridEnergy(k) : k \in 0 .. (MaxEnergy * EScale) }

InitApi ==
    /\ pc = "call"
    /\ FPS \in {10, 15}
    /\ nep50 = FALSE
    /\ audio_found = TRUE
    /\ background_found = TRUE
    /\ channels = 1
    /\ samples = << >>
    /\ steps = << >>
    /\ RECORD = << >>
    /\ energy_of_chunks = << >>
    /\ ENERGY_OF_CHUNKS \in [1 .. 2 -> GridEnergies]
    /\ NUMBER_OF_RECTANGLES = << >>
    /\ walks = << >>
    /\ error = "none"
    /\ img = << >>
    /\ frames = << >>
    /\ video_file = "absent"
    /\ final_file = "absent"

\* the state after get_number_of_rectangles returned or raised r
Returned(r, next_pc) ==
    /\ NUMBER_OF_RECTANGLES' = r.number_of_rectangles
    /\ walks' = r.walks
    /\ error' = r.raised
    /\ pc' = IF r.raised = "none" THEN next_pc ELSE "failed"

CallGetNumberOfRectangles ==
    /\ pc = "call"
    /\ Returned(get_number_of_rectangles(ENERGY_OF_CHUNKS, FPS), "returned")
    /\ UNCHANGED << FPS, nep50, audio_found, background_found, channels, samples,
                    steps, RECORD, energy_of_chunks, ENERGY_OF_CHUNKS, img, frames,
                    video_file, final_file >>

NextApi == CallGetNumberOfRectangles

SpecApi == InitApi /\ [][NextApi]_vars

---------------------------------------------------------------------------
(* main.py *)

\* the recordings of ch channels: 1 .. MaxSamples frames
Recordings(ch) ==
    UNION { [1 .. n -> IF ch = 1 THEN SampleValues ELSE StereoFrames] : n \in 1 .. MaxSamples }

Init ==
    /\ pc = "load"
    /\ FPS \in {10, 12, 15}
    /\ nep50 \in BOOLEAN
    /\ audio_found \in BOOLEAN
    /\ background_found \in BOOLEAN
    /\ channels \in (IF audio_found THEN {1, 2} ELSE {1})
    /\ samples \in (IF audio_found THEN Recordings(channels) ELSE { << >> })
    /\ steps = << >>
    /\ RECORD = << >>
    /\ energy_of_chunks = << >>
    /\ ENERGY_OF_CHUNKS = << >>
    /\ NUMBER_OF_RECTANGLES = << >>
    /\ walks = << >>
    /\ error = "none"
    /\ img = << >>
    /\ frames = << >>
    /\ video_file = "absent"
    /\ final_file = "absent"

\* main.py line 36, when AudioSegment.from_file raises FileNotFoundError
LoadFails ==
    /\ pc = "load"
    /\ ~audio_found
    /\ pc' = "failed"
    /\ error' = "FileNotFoundError"
    /\ UNCHANGED << FPS, nep50, audio_found, background_found, channels, samples,
                    steps, RECORD, energy_of_chunks, ENERGY_OF_CHUNKS,
                    NUMBER_OF_RECTANGLES, walks, img, frames, video_file,
                    final_file >>

\* main.py line 36
LoadAndProcessAudio ==
    /\ pc = "load"
    /\ audio_found
    /\ steps' = CallsOf(channels)
    /\ RECORD' = load_and_process_audio(samples, channels)
    /\ pc' = "energy"
    /\ UNCHANGED << FPS, nep50, audio_found, background_found, channels, samples,
                    energy_of_chunks, ENERGY_OF_CHUNKS, NUMBER_OF_RECTANGLES, walks,
                    error, img, frames, video_file, final_file >>

\* the state after calculate_energy_level_of_chunks returned or raised r
EnergyReturned(r) ==
    /\ energy_of_chunks' = r.means
    /\ ENERGY_OF_CHUNKS' = r.energy_of_chunks
    /\ error' = r.raised
    /\ pc' = IF r.raised = "none" THEN "rectangles" ELSE "failed"

\* main.py line 38
CalculateEnergyLevelOfChunks ==
    /\ pc = "energy"
    /\ EnergyReturned(calculate_energy_level_of_chunks(RECORD, FPS))
    /\ UNCHANGED << FPS, nep50, audio_found, background_found, channels, samples,
                    steps, RECORD, NUMBER_OF_RECTANGLES, walks, img, frames,
                    video_file, final_file >>

\* main.py line 40
GetNumberOfRectangles ==
    /\ pc = "rectangles"
    /\ Returned(get_number_of_rectangles(ENERGY_OF_CHUNKS, FPS), "video")
    /\ UNCHANGED << FPS, nep50, audio_found, background_found, channels, samples,
                    steps, RECORD, energy_of_chunks, ENERGY_OF_CHUNKS, img, frames,
                    video_file, final_file >>

\* process_video when cv2.imread returns None for the background: img.shape raises
\* AttributeError before the writer is created
ProcessVideoFails ==
    /\ pc = "video"
    /\ ~background_found
    /\ pc' = "failed"
    /\ error' = "AttributeError"
    /\ UNCHANGED << FPS, nep50, audio_found, background_found, channels, samples,
                    steps, RECORD, energy_of_chunks, ENERGY_OF_CHUNKS,
                    NUMBER_OF_RECTANGLES, walks, img, frames, video_file,
                    final_file >>

\* process_video up to its loop: the background is read, the writer is created
ProcessVideoOpen ==
    /\ pc = "video"
    /\ background_found
    /\ img' = << >>
    /\ video_file' = "open"
    /\ pc' = "frames"
    /\ UNCHANGED << FPS, nep50, audio_found, background_found, channels, samples,
                    steps, RECORD, energy_of_chunks, ENERGY_OF_CHUNKS,
                    NUMBER_OF_RECTANGLES, walks, error, frames, final_file >>

\* WriteFrame drawing on img itself, without the copy
WriteFrameNoCopy ==
    /\ pc = "frames"
    /\ Len(frames) < Len(NUMBER_OF_RECTANGLES)
    /\ img' = draw_rectangles(img, center_position,
                              NUMBER_OF_RECTANGLES[Len(frames) + 1], rect_w, rect_h)
    /\ frames' = Append(frames, img')
    /\ UNCHANGED << pc, FPS, nep50, audio_found, background_found, channels, samples,
                    steps, RECORD, energy_of_chunks, ENERGY_OF_CHUNKS,
                    NUMBER_OF_RECTANGLES, walks, error, video_file, final_file >>

\* one pass of the loop of process_video: tmp = img.copy(), draw_rectangles(tmp, ...),
\* out.write(tmp)
WriteFrame ==
    /\ pc = "frames"
    /\ Len(frames) < Len(NUMBER_OF_RECTANGLES)
    /\ frames' = Append(frames,
                        draw_rectangles(img, center_position,
                                        NUMBER_OF_RECTANGLES[Len(frames) + 1],
                                        rect_w, rect_h))
    /\ UNCHANGED << pc, FPS, nep50, audio_found, background_found, channels, samples,
                    steps, RECORD, energy_of_chunks, ENERGY_OF_CHUNKS,
                    NUMBER_OF_RECTANGLES, walks, error, img, video_file, final_file >>

\* out.release()
ProcessVideoRelease ==
    /\ pc = "frames"
    /\ Len(frames) = Len(NUMBER_OF_RECTANGLES)
    /\ video_file' = "written"
    /\ pc' = "merge"
    /\ UNCHANGED << FPS, nep50, audio_found, background_found, channels, samples,
                    steps, RECORD, energy_of_chunks, ENERGY_OF_CHUNKS,
                    NUMBER_OF_RECTANGLES, walks, error, img, frames, final_file >>

\* what subprocess.call of ffmpeg can come to: the program runs and writes the
\* final file, it runs and exits with an error, or it is not there to be run
FfmpegOutcomes == {"muxed", "failed", "missing"}

\* main.py line 45: subprocess.call raises FileNotFoundError when there is no
\* ffmpeg to run; the exit status of an ffmpeg that ran is dropped
ProduceFinalOutput ==
    /\ pc = "merge"
    /\ \E outcome \in FfmpegOutcomes :
          /\ final_file' = IF outcome = "muxed" THEN "written" ELSE "absent"
          /\ error' = IF outcome = "missing" THEN "FileNotFoundError(ffmpeg)" ELSE "none"
          /\ pc' = IF outcome = "missing" THEN "failed" ELSE "done"
    /\ UNCHANGED << FPS, nep50, audio_found, background_found, channels, samples,
                    steps, RECORD, energy_of_chunks, ENERGY_OF_CHUNKS,
                    NUMBER_OF_RECTANGLES, walks, img, frames, video_file >>

Next ==
    \/ LoadFails
    \/ LoadAndProcessAudio
    \/ CalculateEnergyLevelOfChunks
    \/ GetNumberOfRectangles
    \/ ProcessVideoFails
    \/ ProcessVideoOpen
    \/ WriteFrame
    \/ ProcessVideoRelease
    \/ ProduceFinalOutput

Spec == Init /\ [][Next]_vars

---------------------------------------------------------------------------
(* Properties *)

\* e <= 10
AtMostTen(e) == ~e.nan /\ e.num <= 100 * e.den

\* e = 10
IsTen(e) == ~e.nan /\ e.num = 100 * e.den

\* e = 0
IsZero(e) == ~e.nan /\ e.num = 0

\* e1 < e2
Less(e1, e2) == e1.num * e2.den < e2.num * e1.den

\* the level that the quantizer section prescribes for a counter
LevelFor(counter) == IF counter = 0 THEN 0 ELSE counter * 2 + 1

\* the 0-based indices of the table th at which the rounded ratio of e is in set
IndicesWithRatio(e, th, set) ==
    { j \in 0 .. (Len(th) - 1) : RoundRatio(e, th[j + 1]) \in set }

\* the smallest element of a non-empty set of integers
Least(S) == CHOOSE j \in S : \A k \in S : j <= k

\* the direct call is over
CallOver == pc \in {"returned", "failed"}

\* C1: for every energy value in [0, 10] and for both tables, the level returned
\* is 0 or odd and lies within [0, 21] (and a call on such values does return).
C1_LevelZeroOrOddWithin21 ==
    /\ pc = "failed" => \E i \in DOMAIN ENERGY_OF_CHUNKS : ~AtMostTen(ENERGY_OF_CHUNKS[i])
    /\ pc = "returned" =>
          \A i \in DOMAIN NUMBER_OF_RECTANGLES :
              AtMostTen(ENERGY_OF_CHUNKS[i]) =>
                  /\ NUMBER_OF_RECTANGLES[i] = 0 \/ NUMBER_OF_RECTANGLES[i] % 2 = 1
                  /\ NUMBER_OF_RECTANGLES[i] >= 0
                  /\ NUMBER_OF_RECTANGLES[i] <= 21

\* a call returned level 21 for the energy 10 and level 0 for the energy 0
C1_Witness ==
    /\ pc = "returned"
    /\ IsTen(ENERGY_OF_CHUNKS[1]) /\ NUMBER_OF_RECTANGLES[1] = 21
    /\ IsZero(ENERGY_OF_CHUNKS[2]) /\ NUMBER_OF_RECTANGLES[2] = 0

\* C2: for every non-negative energy value the walk ends within 11 iterations,
\* never reads an index past the end of the table, and ends with a counter of
\* at most 10.
C2_WalkStaysWithinTable ==
    CallOver =>
        /\ error # "IndexError"
        /\ \A i \in DOMAIN walks :
              /\ walks[i].iterations <= 11
              /\ walks[i].counter <= 10

\* C6: for a fixed table and energies e1 < e2 in [0, 10], the level of e1 is at
\* most the level of e2.
C6_QuantizerMonotone ==
    pc = "returned" =>
        \A i, j \in DOMAIN NUMBER_OF_RECTANGLES :
            ( /\ AtMostTen(ENERGY_OF_CHUNKS[i])
              /\ AtMostTen(ENERGY_OF_CHUNKS[j])
              /\ Less(ENERGY_OF_CHUNKS[i], ENERGY_OF_CHUNKS[j]) )
            => NUMBER_OF_RECTANGLES[i] <= NUMBER_OF_RECTANGLES[j]

\* a call on a larger energy followed by a smaller one, both in [0, 10] and
\* beyond the first threshold, returned a higher level for the larger one
C6_Witness ==
    /\ pc = "returned"
    /\ AtMostTen(ENERGY_OF_CHUNKS[1])
    /\ Less(ENERGY_OF_CHUNKS[2], ENERGY_OF_CHUNKS[1])
    /\ NUMBER_OF_RECTANGLES[2] >= 3
    /\ NUMBER_OF_RECTANGLES[2] < NUMBER_OF_RECTANGLES[1]

\* C10 as stated: the walk stops only where the rounded ratio is 0, so the
\* counter is the smallest index whose rounded ratio is 0, and the level is 0 for
\* counter 0 and counter*2 + 1 otherwise.
C10_CounterIsFirstZeroRatio ==
    pc = "returned" =>
        \A i \in DOMAIN walks :
            LET zeros == IndicesWithRatio(ENERGY_OF_CHUNKS[i], EnergyThresholds(FPS), {0})
            IN  zeros # {} =>
                    /\ walks[i].counter = Least(zeros)
                    /\ NUMBER_OF_RECTANGLES[i] = LevelFor(walks[i].counter)

\* C10, amended: the walk stops at the first index whose rounded ratio is 0 or 1;
\* the counter is that index when the ratio is 0 and that index plus one when it
\* is 1; the level is 0 for counter 0 and counter*2 + 1 otherwise; and when no
\* index of the table has a rounded ratio of 0 or 1 the call raises IndexError.
C10_CounterIsFirstStopRatio ==
    CallOver =>
        \A i \in DOMAIN walks :
            LET th == EnergyThresholds(FPS)
                stops == IndicesWithRatio(ENERGY_OF_CHUNKS[i], th, {0, 1})
            IN  IF stops = {}
                THEN walks[i].raised = "IndexError" /\ error = "IndexError"
                ELSE /\ walks[i].raised = "none"
                     /\ walks[i].counter =
                            Least(stops)
                            + RoundRatio(ENERGY_OF_CHUNKS[i], th[Least(stops) + 1])
                     /\ pc = "returned" =>
                            NUMBER_OF_RECTANGLES[i] = LevelFor(walks[i].counter)

\* a call returned after a walk that stopped on a rounded ratio of 1 at an index
\* followed by one whose rounded ratio is not 0
C10_Witness ==
    /\ pc = "returned"
    /\ \E i \in DOMAIN walks :
          LET th == EnergyThresholds(FPS)
              c == walks[i].counter
          IN  /\ c >= 1 /\ c < Len(th)
              /\ RoundRatio(ENERGY_OF_CHUNKS[i], th[c]) = 1
              /\ RoundRatio(ENERGY_OF_CHUNKS[i], th[c + 1]) # 0
              /\ NUMBER_OF_RECTANGLES[i] = c * 2 + 1

\* the audio has been loaded and preprocessed
Loaded == steps # << >>

\* the energy analysis has been done
Analysed == ENERGY_OF_CHUNKS # << >>

\* every window holds samples: its mean energy is a number
IsNumber(raw) == ~raw.nan

\* every window of the preprocessed recording has mean energy 0
Silent ==
    /\ Loaded
    /\ \A i \in DOMAIN energy_of_chunks :
          IsNumber(energy_of_chunks[i]) /\ energy_of_chunks[i].num = 0

\* C3: for a recording whose windows all have mean energy 0, the analyzer
\* returns all-zero energy values (no NaN), and the quantizer then returns
\* level 0 for every window without raising.
C3_SilentYieldsZeros ==
    (Silent /\ Analysed) =>
        /\ \A i \in DOMAIN ENERGY_OF_CHUNKS : IsZero(ENERGY_OF_CHUNKS[i])
        /\ (FPS \in {10, 15} /\ pc # "rectangles") =>
              /\ error = "none"
              /\ Len(NUMBER_OF_RECTANGLES) = Len(ENERGY_OF_CHUNKS)
              /\ \A i \in DOMAIN NUMBER_OF_RECTANGLES : NUMBER_OF_RECTANGLES[i] = 0

\* C4 as stated: with an FPS that is neither 10 nor 15 the run fails with the
\* unsupported-configuration error before any audio decoding, energy analysis or
\* rendering, and no output file is written.
C4_FailsBeforeAnyWork ==
    FPS \notin {10, 15} =>
        /\ pc \in {"load", "failed"}
        /\ ~Loaded /\ ~Analysed
        /\ frames = << >> /\ video_file = "absent" /\ final_file = "absent"
        /\ pc = "failed" => error = "ValueError(FPS)"

\* C4, amended: with an FPS that is neither 10 nor 15 and an audio file that can
\* be loaded and holds at least one window, the run fails with the
\* unsupported-configuration error in get_number_of_rectangles: after the audio
\* decoding and the energy analysis, before any rendering step, and no output
\* file is written.
C4_FailsBeforeRendering ==
    FPS \notin {10, 15} =>
        /\ pc \in {"load", "energy", "rectangles", "failed"}
        /\ frames = << >> /\ video_file = "absent" /\ final_file = "absent"
        /\ (pc = "failed" /\ audio_found /\ energy_of_chunks # << >>)
              => error = "ValueError(FPS)"
        /\ error = "ValueError(FPS)" => Loaded /\ Analysed

\* a run at FPS 12 failed with the unsupported-configuration error, the audio
\* decoded and analysed
C4_Witness ==
    /\ FPS = 12
    /\ pc = "failed" /\ error = "ValueError(FPS)"
    /\ Loaded /\ Analysed

\* C5: when at least one window has a non-zero mean energy, the rescaled values
\* have maximum exactly 10, attained by every window whose mean energy is the
\* largest, and every value lies in [0, 10].
C5_MaximumIsTen ==
    ( /\ Analysed
      /\ \E i \in DOMAIN energy_of_chunks :
            IsNumber(energy_of_chunks[i]) /\ energy_of_chunks[i].num # 0 ) =>
        /\ Len(ENERGY_OF_CHUNKS) = Len(energy_of_chunks)
        /\ \A i \in DOMAIN ENERGY_OF_CHUNKS :
              /\ AtMostTen(ENERGY_OF_CHUNKS[i])
              /\ ENERGY_OF_CHUNKS[i].num >= 0 /\ ENERGY_OF_CHUNKS[i].den > 0
              /\ (\A j \in DOMAIN energy_of_chunks :
                      energy_of_chunks[j].num * energy_of_chunks[i].den
                          <= energy_of_chunks[i].num * energy_of_chunks[j].den)
                 => IsTen(ENERGY_OF_CHUNKS[i])
        /\ \E i \in DOMAIN ENERGY_OF_CHUNKS : IsTen(ENERGY_OF_CHUNKS[i])

\* the rectangles of a frame that lie in the column at position i of index
RectsInColumn(frame, i) ==
    Cardinality({ k \in DOMAIN frame :
                    frame[k].pt1[1] = IntHalf(2 * (center_position[1] + i * hspace) - rect_w) })

\* a column count, where a count <= 0 draws nothing
NoneBelowZero(n) == IF n <= 0 THEN 0 ELSE n

\* C7: for every level L the renderer is given, the frame holds exactly L
\* rectangles in the centre column, L - 2 in each adjacent column and L - 4 in
\* each outer column, a count <= 0 drawing nothing; so outer <= adjacent <=
\* centre, and at level 0 nothing is drawn.
C7_ColumnCounts ==
    \A k \in DOMAIN frames :
        LET L == NUMBER_OF_RECTANGLES[k]
        IN  /\ RectsInColumn(frames[k], 0) = L
            /\ \A i \in {-1, 1} : RectsInColumn(frames[k], i) = NoneBelowZero(L - 2)
            /\ \A i \in {-2, 2} : RectsInColumn(frames[k], i) = NoneBelowZero(L - 4)
            /\ RectsInColumn(frames[k], 2) <= RectsInColumn(frames[k], 1)
            /\ RectsInColumn(frames[k], 1) <= RectsInColumn(frames[k], 0)
            /\ L = 0 => frames[k] = << >>

\* C8: process_video, given a background it can read, writes one frame per level,
\* in the order of the levels: the i-th frame is the i-th level drawn on a fresh
\* copy of the unmodified background, and the frames written number the windows
\* of the analyzer (len(chunks) of make_chunks).
C8_FramesFollowLevels ==
    /\ Len(frames) <= Len(NUMBER_OF_RECTANGLES)
    /\ img = << >>
    /\ \A k \in DOMAIN frames :
          frames[k] = draw_rectangles(<< >>, center_position, NUMBER_OF_RECTANGLES[k],
                                      rect_w, rect_h)
    /\ pc \in {"merge", "done"} =>
          /\ Len(frames) = Len(NUMBER_OF_RECTANGLES)
          /\ Len(frames) = Len(ENERGY_OF_CHUNKS)
          /\ Len(frames) = NumChunks(Len(RECORD), FPS)

\* a finished run that wrote at least two frames, of different levels, each with
\* rectangles on it
C8_Witness ==
    /\ pc = "done" /\ final_file = "written"
    /\ Len(frames) >= 2
    /\ frames[1] # << >> /\ frames[2] # << >>
    /\ NUMBER_OF_RECTANGLES[1] # NUMBER_OF_RECTANGLES[2]

\* the two preprocessing calls among the calls made, in order
IsPreprocessing(call) == call \in {"normalize", "remove_dc_offset"}

\* the decoded stream as mono samples
MonoSamples == IF channels # 1 THEN SetChannelsMono(samples) ELSE samples

\* C9: load_and_process_audio removes the DC offset first and normalizes second,
\* so the stream returned is the peak-normalized form of the DC-removed signal.
C9_DcRemovalBeforeNormalize ==
    Loaded =>
        /\ SelectSeq(steps, IsPreprocessing) = << "remove_dc_offset", "normalize" >>
        /\ RECORD = Normalize(RemoveDcOffset(MonoSamples))

=============================================================================
